---- MODULE Spec2Model ----
(***************************************************************************)
(* Face identity matching engine of MyJanjiV3 (src/backend/face_service.py *)
(* and the request handlers of src/backend/app.py).                        *)
(*                                                                         *)
(* Numbers.  Embedding components are fixed-point numbers counted in       *)
(* hundredths: the model value 1201 is the float 12.01.  A distance is the *)
(* L2 norm of a difference, in general irrational, so a float is modelled  *)
(* as [k, sq]: k says finite / inf / nan, and for a finite value sq is the *)
(* SQUARE of the value counted in hundredths (distance 22.0 is             *)
(* [k |-> "fin", sq |-> 2200 * 2200]).  Order and equality of non-negative *)
(* values are those of their squares, so every comparison the code makes   *)
(* on a distance is computed exactly.  float64 rounding error (a few ulps) *)
(* is not modelled: raw_score is the exact rational, rounded half to even. *)
(***************************************************************************)
EXTENDS Integers, Sequences, FiniteSets, TLC

\* ------------------------------------------------------------------ bounds
\* longest embedding the model draws (the reference configuration uses 512)
MaxLen == 2
\* faces one detectMultiScale call returns
MaxFaces == 2
\* rows of the users table
MaxUsers == 3
\* verify requests counted against one enrollment
MaxVerify == 3

\* ------------------------------------------------------- program constants
\* config.py: PASSING_THRESHOLD_DISTANCE = 20.0
PASSING_THRESHOLD_DISTANCE == 20
\* config.py: PASSING_THRESHOLD_PERCENTAGE = 45.0
PASSING_THRESHOLD_PERCENTAGE == 45

\* component values of stored embeddings (hundredths): -10.0, 0.0, 10.0,
\* 12.0, 12.01, 12.2, 30.0
StoredVals == {-1000, 0, 1000, 1200, 1201, 1220, 3000}
\* component values of probe (camera) embeddings: -10.0, 0.0, 12.01
ProbeVals == {-1000, 0, 1201}

\* ------------------------------------------------------------- the floats
Fin(sq) == [k |-> "fin", sq |-> sq]
\* float('inf')
inf == [k |-> "inf", sq |-> 0]
\* float('nan')
nan == [k |-> "nan", sq |-> 0]
\* a < b on non-negative floats; every comparison with nan is False
FloatLess(a, b) ==
    IF a.k = "nan" \/ b.k = "nan" THEN FALSE
    ELSE IF a.k = "inf" THEN FALSE
    ELSE IF b.k = "inf" THEN TRUE
    ELSE a.sq < b.sq
FloatLeq(a, b) ==
    IF a.k = "nan" \/ b.k = "nan" THEN FALSE
    ELSE FloatLess(a, b) \/ a = b

\* ------------------------------------------------- values a caller passes
\* Python values handed to compare_embeddings: None, a list of floats, a str
None == [t |-> "None", nums |-> << >>, chars |-> << >>]
List(s) == [t |-> "list", nums |-> s, chars |-> << >>]
Str(c) == [t |-> "str", nums |-> << >>, chars |-> c]

SeqsUpTo(S, n) == UNION {[1..m -> S] : m \in 0..n}

\* ------------------------------------------------ JSON text of embeddings
Digits == <<"0", "1", "2", "3", "4", "5", "6", "7", "8", "9">>
IsDigit(c) == \E d \in 1..10 : Digits[d] = c
DigitVal(c) == (CHOOSE d \in 1..10 : Digits[d] = c) - 1

RECURSIVE NatChars(_)
\* decimal digits of a natural number
NatChars(n) == IF n < 10 THEN <<Digits[n + 1]>>
               ELSE NatChars(n \div 10) \o <<Digits[(n % 10) + 1]>>

\* repr() of a float with at most two decimals: 12.01 -> "12.01",
\* 12.2 -> "12.2", -10.0 -> "-10.0"
FloatRepr(v) ==
    LET a == IF v < 0 THEN -v ELSE v
        f == a % 100
        frac == IF f % 10 = 0 THEN <<Digits[(f \div 10) + 1]>>
                ELSE <<Digits[(f \div 10) + 1], Digits[(f % 10) + 1]>>
    IN  (IF v < 0 THEN <<"-">> ELSE << >>) \o NatChars(a \div 100) \o <<".">> \o frac

RECURSIVE JoinReprs(_, _)
JoinReprs(s, i) ==
    IF i > Len(s) THEN << >>
    ELSE (IF i > 1 THEN <<",", " ">> ELSE << >>) \o FloatRepr(s[i]) \o JoinReprs(s, i + 1)

\* json.dumps(list of floats): "[12.01, -10.0]"
json_dumps(s) == <<"[">> \o JoinReprs(s, 1) \o <<"]">>

RECURSIVE SkipWs(_, _)
\* index of the first non-blank character at or after i (Len(s)+1 if none)
SkipWs(s, i) == IF i <= Len(s) /\ s[i] = " " THEN SkipWs(s, i + 1) ELSE i

RECURSIVE DigitsEnd(_, _)
\* index after the run of digits starting at i
DigitsEnd(s, i) == IF i <= Len(s) /\ IsDigit(s[i]) THEN DigitsEnd(s, i + 1) ELSE i

RECURSIVE DigitsValue(_, _, _)
\* value of the digits s[i..j-1]
DigitsValue(s, i, j) ==
    IF i >= j THEN 0 ELSE DigitsValue(s, i, j - 1) * 10 + DigitVal(s[j - 1])

\* a JSON number starting at i: [ok, val (hundredths), next]
ParseNumber(s, i) ==
    LET neg == i <= Len(s) /\ s[i] = "-"
        i0 == IF neg THEN i + 1 ELSE i
        i1 == DigitsEnd(s, i0)
        hasFrac == i1 <= Len(s) /\ s[i1] = "."
        f0 == i1 + 1
        f1 == IF hasFrac THEN DigitsEnd(s, f0) ELSE i1
        whole == DigitsValue(s, i0, i1) * 100
        frac == IF ~hasFrac THEN 0
                ELSE IF f1 - f0 = 1 THEN DigitVal(s[f0]) * 10
                ELSE DigitVal(s[f0]) * 10 + DigitVal(s[f0 + 1])
        mag == whole + frac
    IN  IF i1 = i0 \/ (hasFrac /\ f1 = f0)
        THEN [ok |-> FALSE, val |-> 0, next |-> i]
        ELSE [ok |-> TRUE, val |-> IF neg THEN -mag ELSE mag, next |-> f1]

\* what json.loads yields: a decoded value, or JSONDecodeError
DecodeError == [ok |-> FALSE, t |-> "error", nums |-> << >>]
Decoded(t, s) == [ok |-> TRUE, t |-> t, nums |-> s]

RECURSIVE ParseElems(_, _, _)
\* the elements of an array, i at the start of an element
ParseElems(s, i, acc) ==
    LET n == ParseNumber(s, i)
        j == SkipWs(s, n.next)
    IN  IF ~n.ok \/ j > Len(s) THEN DecodeError
        ELSE IF s[j] = "," THEN ParseElems(s, SkipWs(s, j + 1), Append(acc, n.val))
        ELSE IF s[j] = "]"
             THEN IF SkipWs(s, j + 1) > Len(s) THEN Decoded("list", Append(acc, n.val))
                  ELSE DecodeError
        ELSE DecodeError

\* json.loads on the texts the model draws: an array of numbers, null,
\* an empty object; anything else is a JSONDecodeError
json_loads(s) ==
    LET i == SkipWs(s, 1)
        rest == SubSeq(s, i, Len(s))
    IN  IF i > Len(s) THEN DecodeError
        ELSE IF rest = <<"n", "u", "l", "l">> THEN Decoded("null", << >>)
        ELSE IF rest = <<"{", "}">> THEN Decoded("dict", << >>)
        ELSE IF s[i] = "["
             THEN LET j == SkipWs(s, i + 1)
                  IN  IF j <= Len(s) /\ s[j] = "]"
                      THEN IF SkipWs(s, j + 1) > Len(s) THEN Decoded("list", << >>)
                           ELSE DecodeError
                      ELSE ParseElems(s, j, << >>)
        ELSE DecodeError

\* ------------------------------------------------------------ numpy arrays
\* np.array(x, dtype=np.float64) of a decoded value: a list gives a 1-D
\* array, None gives the 0-d array nan, a dict raises TypeError
np_array(d) ==
    IF d.t = "list" THEN [ok |-> TRUE, nd |-> 1, v |-> d.nums, isnan |-> FALSE]
    ELSE IF d.t = "null" THEN [ok |-> TRUE, nd |-> 0, v |-> << >>, isnan |-> TRUE]
    ELSE [ok |-> FALSE, nd |-> 0, v |-> << >>, isnan |-> FALSE]

\* whether numpy broadcasts the two shapes for arr1 - arr2: a 0-d array
\* broadcasts with anything; 1-D arrays need equal lengths or a length of 1
Broadcastable(a, b) ==
    \/ a.nd = 0
    \/ b.nd = 0
    \/ Len(a.v) = Len(b.v)
    \/ Len(a.v) = 1
    \/ Len(b.v) = 1

\* length of the broadcast result (0-d counts as one element)
BroadcastLen(a, b) ==
    IF a.nd = 0 /\ b.nd = 0 THEN 1
    ELSE IF a.nd = 0 THEN Len(b.v)
    ELSE IF b.nd = 0 THEN Len(a.v)
    ELSE IF Len(a.v) = 1 THEN Len(b.v)
    ELSE Len(a.v)

\* element i of a 1-D array broadcast to a longer shape
Elem(a, i) == IF Len(a.v) = 1 THEN a.v[1] ELSE a.v[i]

RECURSIVE SumSq(_, _, _)
\* sum over i = 1..n of (arr1[i] - arr2[i])^2
SumSq(a, b, n) ==
    IF n = 0 THEN 0
    ELSE SumSq(a, b, n - 1) + (Elem(a, n) - Elem(b, n)) * (Elem(a, n) - Elem(b, n))

\* variant: the norm of arr1 alone, the subtraction forgotten
norm_diff_nosub(a, b) ==
    LET n == BroadcastLen(a, b)
        zero == [b EXCEPT !.v = [i \in 1..Len(b.v) |-> 0]]
    IN  IF n = 0 THEN Fin(0)
        ELSE IF a.isnan \/ b.isnan THEN nan
        ELSE Fin(SumSq(a, zero, n))

\* np.linalg.norm(arr1 - arr2): nan as soon as one element is nan, and 0.0
\* for an empty difference
norm_diff(a, b) ==
    LET n == BroadcastLen(a, b)
    IN  IF n = 0 THEN Fin(0)
        ELSE IF a.isnan \/ b.isnan THEN nan
        ELSE Fin(SumSq(a, b, n))

\* -------------------------------------------------------------- the score
\* variant: max_score_dist = threshold, the doubling forgotten
HalfPointDist_nodouble(threshold, a) == (100 * threshold * (200 - a)) \div 200

\* the distance (hundredths) at which raw_score, computed with
\* max_score_dist = threshold * 2, equals a / 2:
\*   ((max - d) / max) * 100 = a / 2  <=>  d = max * (200 - a) / 200
HalfPointDist(threshold, a) == (100 * (threshold * 2) * (200 - a)) \div 200

\* raw_score > a / 2, for 0 <= a <= 200
RawAbove(threshold, distance, a) ==
    distance.k = "fin" /\
    distance.sq < HalfPointDist(threshold, a) * HalfPointDist(threshold, a)

\* raw_score = a / 2
RawEquals(threshold, distance, a) ==
    distance.k = "fin" /\
    distance.sq = HalfPointDist(threshold, a) * HalfPointDist(threshold, a)

\* variant: int(...) in place of round(...), truncation toward zero
RoundsToAtLeast_trunc(threshold, distance, k) ==
    \/ k = 0
    \/ RawAbove(threshold, distance, 2 * k)
    \/ RawEquals(threshold, distance, 2 * k)

\* round(max(0, min(100, raw_score))) >= k: Python rounds half to even
RoundsToAtLeast(threshold, distance, k) ==
    \/ k = 0
    \/ RawAbove(threshold, distance, 2 * k - 1)
    \/ RawEquals(threshold, distance, 2 * k - 1) /\ k % 2 = 0

\* variant: raw_score = (distance / max_score_dist) * 100, rising with the
\* distance
score_of_rising(threshold, distance) ==
    IF distance.k = "nan" THEN 100
    ELSE IF distance.k = "inf" THEN 100
    ELSE 100 - CHOOSE k \in 0..100 :
            /\ RoundsToAtLeast(threshold, distance, k)
            /\ (k = 100 \/ ~RoundsToAtLeast(threshold, distance, k + 1))

\* score = round(max(0, min(100, raw_score))) for the given threshold
\* distance.  min(100, nan) is 100 (nan < 100 is False), max(0, -inf) is 0.
score_of(threshold, distance) ==
    IF distance.k = "nan" THEN 100
    ELSE IF distance.k = "inf" THEN 0
    ELSE CHOOSE k \in 0..100 :
            /\ RoundsToAtLeast(threshold, distance, k)
            /\ (k = 100 \/ ~RoundsToAtLeast(threshold, distance, k + 1))

\* ------------------------------------------------------ compare_embeddings
Return(m, s, d) ==
    [outcome |-> "return", is_match |-> m, score |-> s, distance |-> d,
     error |-> "none"]
Raise(e) ==
    [outcome |-> "raise", is_match |-> FALSE, score |-> 0, distance |-> inf,
     error |-> e]

\* variant: no isinstance(str) branch, the text reaches np.array undecoded
\* and np.array raises on it
Canon_nodecode(e) ==
    IF e.t = "str" THEN Decoded("text", << >>) ELSE Decoded("list", e.nums)

\* the str branch of an argument: json.loads when it is a str
Canon(e) == IF e.t = "str" THEN json_loads(e.chars) ELSE Decoded("list", e.nums)

\* variant: the decision taken on the distance, as the command-line tool does
is_match_of_dist(score, distance) ==
    FloatLess(distance, Fin((100 * PASSING_THRESHOLD_DISTANCE) * (100 * PASSING_THRESHOLD_DISTANCE)))

\* is_match = score >= PASSING_THRESHOLD_PERCENTAGE
is_match_of(score, distance) == score >= PASSING_THRESHOLD_PERCENTAGE

compare_embeddings(embedding1, embedding2) ==
    IF embedding1.t = "None" \/ embedding2.t = "None" THEN Return(FALSE, 0, inf)
    ELSE
    LET d1 == Canon(embedding1)
        d2 == Canon(embedding2)
    IN  IF ~d1.ok THEN Return(FALSE, 0, inf)
        ELSE IF ~d2.ok THEN Return(FALSE, 0, inf)
        ELSE
        LET arr1 == np_array(d1)
            arr2 == np_array(d2)
        IN  IF ~arr1.ok \/ ~arr2.ok THEN Raise("TypeError")
            ELSE IF ~Broadcastable(arr1, arr2) THEN Raise("ValueError")
            ELSE
            LET distance == norm_diff(arr1, arr2)
                score == score_of(PASSING_THRESHOLD_DISTANCE, distance)
                is_match == is_match_of(score, distance)
            IN  Return(is_match, score, distance)

\* ------------------------------------------- the command-line comparison
\* supabase_embedding.py: PASSING_THRESHOLD_DISTANCE = 30.0
TOOL_PASSING_THRESHOLD_DISTANCE == 30

\* calculate_distance: np.linalg.norm(np.array(e1) - np.array(e2)) of two
\* embeddings as DeepFace returns them, lists of numbers of one length
calculate_distance(e1, e2) ==
    norm_diff(np_array(Decoded("list", e1.nums)),
              np_array(Decoded("list", e2.nums)))

\* main: the score printed and the decision that gates the storing
ToolResult(ran, m, s) == [ran |-> ran, is_match |-> m, score |-> s]
tool_main(ic_embedding, face_embedding) ==
    LET distance == calculate_distance(ic_embedding, face_embedding)
        score == score_of(TOOL_PASSING_THRESHOLD_DISTANCE, distance)
    IN  ToolResult(TRUE,
                   FloatLess(distance,
                             Fin((100 * TOOL_PASSING_THRESHOLD_DISTANCE)
                                 * (100 * TOOL_PASSING_THRESHOLD_DISTANCE))),
                   score)

\* ----------------------------------------------------------------- state
VARIABLES
    embedding1,     \* compare_embeddings: first argument (stored embedding)
    embedding2,     \* compare_embeddings: second argument (probe)
    pc,             \* "call" before compare_embeddings ran, "done" after
    result,         \* what the call returned or raised
    tool,           \* what the command-line tool printed and decided
    temp_ic_embedding,  \* face_service._temp_ic_embedding, the enrollment slot
    last_op,        \* the slot operation called last: store / get / clear
    last_store,     \* history: argument of the latest store, None after a clear
    got,            \* what the latest get_temp_embedding returned
    handler,        \* the request handler that ran last
    response,       \* the HTTP response of that request
    decided,        \* verify requests decided against the current enrollment
    request,        \* history: the image the latest request carried,
                    \* whether it reached the embedding provider and
                    \* whether the provider produced an embedding
    users,          \* identify_face: the records fetched from the users table
    camera_embedding,   \* identify_face: the embedding of the camera frame
    scanned,        \* identify_face: how many records the loop has been through
    scan,           \* identify_face: best_match, best_score, best_distance
    scan_pc,        \* identify_face: "scan" in the loop, "done" after the response
    frame,          \* face location: width and height of the frame
    original,       \* history: width and height of the frame as handed in
    loaded,         \* face location: whether the Haar cascade could be loaded
    detections,     \* history: what detectMultiScale returned at each attempt
    attempts,       \* history: the detectMultiScale attempts detect_face made
    params,         \* history: minSize and minNeighbors of each attempt made
    faces,          \* face location: what detect_face returned
    located,        \* face location: the region handed to the embedding provider
    locate_pc,      \* face location: "resize", "detect", "locate", "done";
                    \* then the embedding: "represent", "finally", "returned"
    files,          \* the temporary files now in the upload folder
    created,        \* history: the temporary files the call has written
    finished,       \* how the call ends: "embedding" returned or "raise"
    ic_person,      \* per flow: whose IC the flow uploads
    camera_person,  \* per flow: whose face the flow's camera frame shows
    flow_pc,        \* per flow: how far its enroll and verify requests got
    user_ic_file,   \* whose IC image the file uploads/user_ic.jpg holds
    flow_embedding, \* per flow: the request's local embedding / camera_embedding
    flow_enrolled,  \* per flow: the face_embedding its upload_ic response carried
    flow_response,  \* per flow: the response to its latest request
    last_enroll,    \* history: the flow whose upload_ic stored last
    flow_against    \* history, per flow: last_enroll when its verify was decided

vars == <<embedding1, embedding2, pc, result, tool, temp_ic_embedding, last_op,
          last_store, got, handler, response, decided, request,
          users, camera_embedding, scanned, scan, scan_pc,
          frame, original, loaded, detections, attempts, params, faces,
          located, locate_pc, files, created, finished,
          ic_person, camera_person, flow_pc, user_ic_file, flow_embedding,
          flow_enrolled, flow_response, last_enroll, flow_against>>
compareVars == <<embedding1, embedding2, pc, result, tool>>
storeVars == <<last_op, last_store, got>>
flowVars == <<handler, response, decided, request>>
scanVars == <<users, camera_embedding, scanned, scan, scan_pc>>
locateVars == <<frame, original, loaded, detections, attempts, params, faces,
                located, locate_pc, files, created, finished>>
raceVars == <<ic_person, camera_person, flow_pc, user_ic_file, flow_embedding,
              flow_enrolled, flow_response, last_enroll, flow_against>>

\* texts that are not the JSON of an embedding: not JSON at all ("abc"),
\* a truncated array ("[1,"), and JSON that is no numeric sequence
BadTexts == {<<"a", "b", "c">>, <<"[", "1", ",">>, <<"{", "}">>, <<"n", "u", "l", "l">>}

\* the values of one argument: None, a native list, the JSON text of a
\* list, a bad text
Inputs(vals) ==
    {None}
    \cup {List(s) : s \in SeqsUpTo(vals, MaxLen)}
    \cup {Str(json_dumps(s)) : s \in SeqsUpTo(vals, MaxLen)}
    \cup {Str(t) : t \in BadTexts}

NoResult == [outcome |-> "none", is_match |-> FALSE, score |-> 0,
             distance |-> inf, error |-> "none"]

\* ------------------------------------- specification: compare_embeddings
NoResponse == [code |-> 0, status |-> "none", message |-> "none", score |-> 0]
NoRequest == [image |-> "none", reached |-> FALSE, extracted |-> FALSE]

\* face location not running
NoFrame == [width |-> 0, height |-> 0]
NoRegion == [kind |-> "none", x |-> 0, y |-> 0, w |-> 0, h |-> 0]
IdleLocate ==
    /\ frame = NoFrame
    /\ original = NoFrame
    /\ loaded = FALSE
    /\ detections = << >>
    /\ attempts = {}
    /\ params = << >>
    /\ faces = << >>
    /\ located = NoRegion
    /\ locate_pc = "idle"
    /\ files = {}
    /\ created = {}
    /\ finished = "none"

\* the two enroll-then-verify flows; no flow, no file
Flows == {1, 2}
NoFlow == 0
NoFile == 0
IdleRace ==
    /\ ic_person = [f \in Flows |-> NoFile]
    /\ camera_person = [f \in Flows |-> NoFile]
    /\ flow_pc = [f \in Flows |-> "idle"]
    /\ user_ic_file = NoFile
    /\ flow_embedding = [f \in Flows |-> None]
    /\ flow_enrolled = [f \in Flows |-> None]
    /\ flow_response = [f \in Flows |-> NoResponse]
    /\ last_enroll = NoFlow
    /\ flow_against = [f \in Flows |-> NoFlow]

\* identify_face before its loop: best_match = None, best_score = 0,
\* best_distance = float('inf'); raised records an exception leaving the loop
NoUser == 0
ScanStart == [best_match |-> NoUser, best_score |-> 0, best_distance |-> inf,
              raised |-> FALSE]

\* the parts of the state a specification does not use
\* the command-line tool has not run
NoTool == ToolResult(FALSE, FALSE, 0)
IdleCompare ==
    /\ embedding1 = None
    /\ embedding2 = None
    /\ pc = "idle"
    /\ result = NoResult
    /\ tool = NoTool
IdleStore ==
    /\ last_op = "none"
    /\ last_store = None
    /\ got = None
IdleFlow ==
    /\ handler = "none"
    /\ response = NoResponse
    /\ decided = 0
    /\ request = NoRequest
IdleScan ==
    /\ users = << >>
    /\ camera_embedding = None
    /\ scanned = 0
    /\ scan = ScanStart
    /\ scan_pc = "idle"

InitCompare ==
    /\ embedding1 \in Inputs(StoredVals)
    /\ embedding2 \in Inputs(ProbeVals)
    /\ pc = "call"
    /\ result = NoResult
    /\ tool = NoTool
    /\ temp_ic_embedding = None
    /\ IdleStore
    /\ IdleFlow
    /\ IdleScan
    /\ IdleRace
    /\ IdleLocate
    /\ IdleRace

Compare ==
    /\ pc = "call"
    /\ result' = compare_embeddings(embedding1, embedding2)
    /\ pc' = "done"
    /\ UNCHANGED <<embedding1, embedding2, tool, temp_ic_embedding, storeVars, flowVars, scanVars, locateVars, raceVars>>

\* the command-line tool run on two images whose embeddings are embedding1
\* and embedding2: DeepFace hands it two lists of numbers of one length
ToolMain ==
    /\ tool = NoTool
    /\ embedding1.t = "list"
    /\ embedding2.t = "list"
    /\ Len(embedding1.nums) = Len(embedding2.nums)
    /\ Len(embedding1.nums) > 0
    /\ tool' = tool_main(embedding1, embedding2)
    /\ UNCHANGED <<embedding1, embedding2, pc, result, temp_ic_embedding,
                   storeVars, flowVars, scanVars, locateVars, raceVars>>

NextCompare == Compare \/ ToolMain

SpecCompare == InitCompare /\ [][NextCompare]_vars

\* ------------------------------------------------------ enrollment store
\* the embeddings the embedding provider hands out
Embeddings == {List(s) : s \in SeqsUpTo(ProbeVals, MaxLen)}

\* variant: the slot is written only while it is empty
store_temp_embedding_once(slot, embedding) == IF slot = None THEN embedding ELSE slot

\* store_temp_embedding: the new value of _temp_ic_embedding
store_temp_embedding(slot, embedding) == embedding

\* get_temp_embedding: the value returned
get_temp_embedding(slot) == slot

\* clear_temp_embedding: the new value of _temp_ic_embedding
clear_temp_embedding(slot) == None

InitStore ==
    /\ temp_ic_embedding = None
    /\ IdleStore
    /\ IdleCompare
    /\ IdleFlow
    /\ IdleScan
    /\ IdleRace
    /\ IdleLocate
    /\ IdleRace

Store ==
    \E e \in Embeddings :
        /\ temp_ic_embedding' = store_temp_embedding(temp_ic_embedding, e)
        /\ last_op' = "store"
        /\ last_store' = e
        /\ UNCHANGED <<got, compareVars, flowVars, scanVars, locateVars, raceVars>>

Get ==
    /\ got' = get_temp_embedding(temp_ic_embedding)
    /\ last_op' = "get"
    /\ UNCHANGED <<temp_ic_embedding, last_store, compareVars, flowVars, scanVars, locateVars, raceVars>>

Clear ==
    /\ temp_ic_embedding' = clear_temp_embedding(temp_ic_embedding)
    /\ last_op' = "clear"
    /\ last_store' = None
    /\ UNCHANGED <<got, compareVars, flowVars, scanVars, locateVars, raceVars>>

NextStore == Store \/ Get \/ Clear

SpecStore == InitStore /\ [][NextStore]_vars

\* ------------------------------------------------------ request handlers
\* the embedding provider failing: generate_embedding raises
Raised == [t |-> "raise", nums |-> << >>, chars |-> << >>]

Response(code, status, message, score) ==
    [code |-> code, status |-> status, message |-> message, score |-> score]

\* variant: the slot is emptied when OCR or the extraction raises
upload_ic_clearing(slot, file, ocr, provided) ==
    IF file = "nopart"
    THEN [temp |-> slot, response |-> Response(400, "error", "No file part", 0)]
    ELSE IF file = "noname"
    THEN [temp |-> slot, response |-> Response(400, "error", "No selected file", 0)]
    ELSE IF ~ocr
    THEN [temp |-> None, response |-> Response(500, "error", "exception", 0)]
    ELSE IF provided = Raised
    THEN [temp |-> None, response |-> Response(500, "error", "exception", 0)]
    ELSE [temp |-> store_temp_embedding(slot, provided),
          response |-> Response(200, "success",
                                "IC uploaded - proceed to face verification", 0)]

\* upload_ic: the enroll request.  file is what the request carries, ocr
\* whether extract_ic_details succeeds, provided what generate_embedding
\* yields.  Gives the new slot and the response.
upload_ic(slot, file, ocr, provided) ==
    IF file = "nopart"
    THEN [temp |-> slot, response |-> Response(400, "error", "No file part", 0)]
    ELSE IF file = "noname"
    THEN [temp |-> slot, response |-> Response(400, "error", "No selected file", 0)]
    ELSE IF ~ocr
    THEN [temp |-> slot, response |-> Response(500, "error", "exception", 0)]
    ELSE IF provided = Raised
    THEN [temp |-> slot, response |-> Response(500, "error", "exception", 0)]
    ELSE [temp |-> store_temp_embedding(slot, provided),
          response |-> Response(200, "success",
                                "IC uploaded - proceed to face verification", 0)]

\* variant: the slot is cleared once a verification succeeded
verify_outcome_clearing(slot, r) ==
    IF r.outcome = "raise"
    THEN [temp |-> slot, response |-> Response(500, "error", "exception", 0)]
    ELSE IF r.is_match
    THEN [temp |-> clear_temp_embedding(slot),
          response |-> Response(200, "success", "Identity Verified", r.score)]
    ELSE [temp |-> slot, response |-> Response(200, "fail", "Face mismatch", r.score)]

\* process_frame after the comparison r: an exception reaches the outer
\* handler (500), a match is Verified, anything else Rejected
verify_outcome(slot, r) ==
    IF r.outcome = "raise"
    THEN [temp |-> slot, response |-> Response(500, "error", "exception", 0)]
    ELSE IF r.is_match
    THEN [temp |-> slot,
          response |-> Response(200, "success", "Identity Verified", r.score)]
    ELSE [temp |-> slot, response |-> Response(200, "fail", "Face mismatch", r.score)]

\* variant: the stored embedding is compared without the check for None
process_frame_nocheck(slot, image, provided) ==
    IF image = "empty"
    THEN [temp |-> slot, response |-> Response(400, "error", "No image data provided", 0)]
    ELSE IF image = "badbase64"
    THEN [temp |-> slot, response |-> Response(400, "error", "Failed to decode", 0)]
    ELSE IF image = "undecodable"
    THEN [temp |-> slot, response |-> Response(400, "error", "Failed to decode image", 0)]
    ELSE IF provided = Raised
    THEN [temp |-> slot, response |-> Response(500, "error", "Failed to process face", 0)]
    ELSE verify_outcome(slot, compare_embeddings(get_temp_embedding(slot), provided))

\* process_frame: the verify request of the registration flow.  image is
\* what the request carries, provided what process_frame_for_embedding
\* yields.  Gives the new slot and the response.
process_frame(slot, image, provided) ==
    IF image = "empty"
    THEN [temp |-> slot, response |-> Response(400, "error", "No image data provided", 0)]
    ELSE IF image = "badbase64"
    THEN [temp |-> slot, response |-> Response(400, "error", "Failed to decode", 0)]
    ELSE IF image = "undecodable"
    THEN [temp |-> slot, response |-> Response(400, "error", "Failed to decode image", 0)]
    ELSE IF provided = Raised
    THEN [temp |-> slot, response |-> Response(500, "error", "Failed to process face", 0)]
    ELSE IF get_temp_embedding(slot) = None
    THEN [temp |-> slot,
          response |-> Response(400, "error",
                                "No IC record found. Please upload IC first.", 0)]
    ELSE verify_outcome(slot, compare_embeddings(get_temp_embedding(slot), provided))

\* a verify request that was decided: Verified or Rejected
Decided(resp) == resp.code = 200 /\ resp.status \in {"success", "fail"}

InitFlow ==
    /\ temp_ic_embedding = None
    /\ IdleFlow
    /\ IdleCompare
    /\ IdleStore
    /\ IdleScan
    /\ IdleLocate
    /\ IdleRace

\* the embeddings the embedding provider hands out to the requests
FlowEmbeddings ==
    {List(<< >>), List(<<-1000>>), List(<<0>>), List(<<3000>>), List(<<0, 0>>)}

\* what reaches the embedding provider is drawn only for requests that get
\* that far
UploadIc ==
    \E file \in {"nopart", "noname", "ok"} :
      \E ocr \in IF file = "ok" THEN BOOLEAN ELSE {FALSE} :
        \E provided \in IF ocr THEN FlowEmbeddings \cup {Raised} ELSE {Raised} :
          \E r \in {upload_ic(temp_ic_embedding, file, ocr, provided)} :
            /\ temp_ic_embedding' = r.temp
            /\ response' = r.response
            /\ handler' = "upload_ic"
            /\ request' = [image |-> file, reached |-> ocr,
                           extracted |-> provided # Raised]
            /\ decided' = IF r.response.code = 200 THEN 0 ELSE decided
            /\ UNCHANGED <<compareVars, storeVars, scanVars, locateVars, raceVars>>

ProcessFrame ==
    /\ decided < MaxVerify
    /\ \E image \in {"empty", "badbase64", "undecodable", "ok"} :
        \E provided \in IF image = "ok" THEN FlowEmbeddings \cup {Raised}
                         ELSE {Raised} :
          \E r \in {process_frame(temp_ic_embedding, image, provided)} :
            /\ temp_ic_embedding' = r.temp
            /\ response' = r.response
            /\ handler' = "process_frame"
            /\ request' = [image |-> image, reached |-> image = "ok",
                           extracted |-> provided # Raised]
            /\ decided' = IF Decided(r.response) THEN decided + 1 ELSE decided
            /\ UNCHANGED <<compareVars, storeVars, scanVars, locateVars, raceVars>>

\* --------------------------------------------------- identification scan
\* Python truth of a stored face_embedding: None, '' and [] are false
Truthy(e) ==
    /\ e # None
    /\ ~(e.t = "list" /\ e.nums = << >>)
    /\ ~(e.t = "str" /\ e.chars = << >>)

\* variant: the best distance is replaced on <= rather than <
track_best_last(st, user, r) ==
    IF r.outcome = "raise"
    THEN [st EXCEPT !.raised = TRUE]
    ELSE IF FloatLeq(r.distance, st.best_distance)
    THEN [best_match |-> IF r.is_match THEN user.user_id ELSE st.best_match,
          best_score |-> r.score,
          best_distance |-> r.distance,
          raised |-> FALSE]
    ELSE st

\* the loop body after the comparison r of one record: an exception leaves
\* the loop, a strictly smaller distance replaces best_distance and
\* best_score, and best_match only if the comparison is a match
track_best(st, user, r) ==
    IF r.outcome = "raise"
    THEN [st EXCEPT !.raised = TRUE]
    ELSE IF FloatLess(r.distance, st.best_distance)
    THEN [best_match |-> IF r.is_match THEN user.user_id ELSE st.best_match,
          best_score |-> r.score,
          best_distance |-> r.distance,
          raised |-> FALSE]
    ELSE st

\* variant: a record without an embedding is compared like any other
scan_user_noskip(st, user, camera) ==
    track_best(st, user, compare_embeddings(user.face_embedding, camera))

\* one pass of the loop: a record without an embedding is skipped
scan_user(st, user, camera) ==
    IF ~Truthy(user.face_embedding)
    THEN st
    ELSE track_best(st, user, compare_embeddings(user.face_embedding, camera))

RECURSIVE scan_users(_, _, _)
\* the whole loop "for user in users", left at the first exception
scan_users(st, rows, camera) ==
    IF rows = << >> \/ st.raised THEN st
    ELSE scan_users(scan_user(st, Head(rows), camera), Tail(rows), camera)

IdResponse(code, success, message, score, user) ==
    [code |-> code, status |-> success, message |-> message, score |-> score,
     user |-> user]

\* variant: the user is reported whenever a best score was recorded
identify_response_any(st) ==
    IF st.raised
    THEN IdResponse(500, "false", "exception", 0, NoUser)
    ELSE IF st.best_match # NoUser \/ st.best_score > 0
    THEN IdResponse(200, "true", "Welcome back", st.best_score, st.best_match)
    ELSE IdResponse(200, "false", "Face not recognized. Please try again.",
                    st.best_score, NoUser)

\* the response after the loop
identify_response(st) ==
    IF st.raised
    THEN IdResponse(500, "false", "exception", 0, NoUser)
    ELSE IF st.best_match # NoUser
    THEN IdResponse(200, "true", "Welcome back", st.best_score, st.best_match)
    ELSE IdResponse(200, "false", "Face not recognized. Please try again.",
                    st.best_score, NoUser)

\* stored face_embedding values of the users table: native and JSON
\* embeddings at several distances of the probes, texts that are no
\* embedding, the empty text and the empty list
ScanVals == {0, 1000, 1220, 3000}
StoredRecords ==
    {List(<<v>>) : v \in ScanVals}
    \cup {Str(json_dumps(<<1000>>)), Str(<<"a", "b", "c">>), Str(<<"{", "}">>),
          Str(<<"n", "u", "l", "l">>), Str(<< >>), List(<< >>)}
Probes == {List(<<-1000>>), List(<<0>>)}

\* the rows of the users table, user_id being the position in the table
Rows(es) == [k \in 1..Len(es) |-> [user_id |-> k, face_embedding |-> es[k]]]

InitIdentify ==
    /\ users \in {Rows(es) : es \in SeqsUpTo(StoredRecords, MaxUsers)}
    /\ camera_embedding \in Probes
    /\ scanned = 0
    /\ scan = ScanStart
    /\ scan_pc = "scan"
    /\ temp_ic_embedding = None
    /\ IdleCompare
    /\ IdleStore
    /\ IdleFlow
    /\ IdleLocate
    /\ IdleRace

\* one pass of "for user in users"
ScanUser ==
    /\ scan_pc = "scan"
    /\ scanned < Len(users)
    /\ ~scan.raised
    /\ scan' = scan_user(scan, users[scanned + 1], camera_embedding)
    /\ scanned' = scanned + 1
    /\ UNCHANGED <<users, camera_embedding, scan_pc, temp_ic_embedding,
                   compareVars, storeVars, flowVars, locateVars, raceVars>>

\* the loop is over, or an exception left it: the response is sent
IdentifyRespond ==
    /\ scan_pc = "scan"
    /\ scanned = Len(users) \/ scan.raised
    /\ response' = identify_response(scan)
    /\ handler' = "identify_face"
    /\ scan_pc' = "done"
    /\ UNCHANGED <<users, camera_embedding, scanned, scan, temp_ic_embedding,
                   decided, request, compareVars, storeVars, locateVars,
                   raceVars>>

NextIdentify == ScanUser \/ IdentifyRespond

SpecIdentify == InitIdentify /\ [][NextIdentify]_vars

\* ------------------------------------------ login and identification requests
\* variant: a successful login empties the enrollment slot
verify_login_clearing(slot, image, stored_embedding, provided) ==
    IF image = "nodata"
    THEN [temp |-> slot, response |-> Response(400, "error", "No data provided", 0)]
    ELSE IF image = "empty"
    THEN [temp |-> slot, response |-> Response(400, "error", "No image data provided", 0)]
    ELSE IF ~Truthy(stored_embedding)
    THEN [temp |-> slot,
          response |-> Response(400, "error", "No stored embedding provided", 0)]
    ELSE IF image = "badbase64"
    THEN [temp |-> slot, response |-> Response(400, "error", "Failed to decode", 0)]
    ELSE IF image = "undecodable"
    THEN [temp |-> slot, response |-> Response(400, "error", "Failed to decode image", 0)]
    ELSE IF provided = Raised
    THEN [temp |-> slot, response |-> Response(500, "error", "Failed to process face", 0)]
    ELSE verify_outcome_clearing(slot, compare_embeddings(stored_embedding, provided))

\* verify_login: the login request.  stored_embedding is the face_embedding
\* the request carries, provided what process_frame_for_embedding yields.
verify_login(slot, image, stored_embedding, provided) ==
    IF image = "nodata"
    THEN [temp |-> slot, response |-> Response(400, "error", "No data provided", 0)]
    ELSE IF image = "empty"
    THEN [temp |-> slot, response |-> Response(400, "error", "No image data provided", 0)]
    ELSE IF ~Truthy(stored_embedding)
    THEN [temp |-> slot,
          response |-> Response(400, "error", "No stored embedding provided", 0)]
    ELSE IF image = "badbase64"
    THEN [temp |-> slot, response |-> Response(400, "error", "Failed to decode", 0)]
    ELSE IF image = "undecodable"
    THEN [temp |-> slot, response |-> Response(400, "error", "Failed to decode image", 0)]
    ELSE IF provided = Raised
    THEN [temp |-> slot, response |-> Response(500, "error", "Failed to process face", 0)]
    ELSE verify_outcome(slot, compare_embeddings(stored_embedding, provided))

\* the users table could not be read
DbError == << [user_id |-> NoUser, face_embedding |-> None] >>

\* identify_face: the identification request.  table is what the query on
\* the users table yields, provided what process_frame_for_embedding yields.
identify_face(slot, image, provided, table) ==
    IF image = "nodata"
    THEN [temp |-> slot,
          response |-> IdResponse(400, "false", "No data provided", 0, NoUser)]
    ELSE IF image = "empty"
    THEN [temp |-> slot,
          response |-> IdResponse(400, "false", "No image data provided", 0, NoUser)]
    ELSE IF image \in {"badbase64", "undecodable"}
    THEN [temp |-> slot,
          response |-> IdResponse(400, "false", "Failed to decode image", 0, NoUser)]
    ELSE IF provided = Raised
    THEN [temp |-> slot,
          response |-> IdResponse(400, "false", "No face detected", 0, NoUser)]
    ELSE IF table = DbError
    THEN [temp |-> slot,
          response |-> IdResponse(500, "false", "Database error", 0, NoUser)]
    ELSE [temp |-> slot,
          response |-> identify_response(scan_users(ScanStart, table, provided))]

Images == {"nodata", "empty", "badbase64", "undecodable", "ok"}

\* the face_embedding values a login request carries
LoginStored ==
    {None, Str(<< >>), List(<<0>>), List(<<1201>>), Str(json_dumps(<<0>>)),
     Str(<<"a", "b", "c">>), Str(<<"{", "}">>)}

\* the users tables an identification request finds
Tables == {Rows(es) : es \in SeqsUpTo({List(<<0>>), List(<<3000>>)}, MaxUsers)}

VerifyLogin ==
    \E image \in Images :
      \E stored_embedding \in IF image \in {"nodata", "empty"} THEN {None}
                                ELSE IF image = "ok" THEN LoginStored
                                ELSE {None, List(<<0>>)} :
        \E provided \in IF image = "ok" /\ Truthy(stored_embedding)
                         THEN FlowEmbeddings \cup {Raised} ELSE {Raised} :
          \E r \in {verify_login(temp_ic_embedding, image, stored_embedding, provided)} :
            /\ temp_ic_embedding' = r.temp
            /\ response' = r.response
            /\ handler' = "verify_login"
            /\ request' = [image |-> image,
                           reached |-> image = "ok" /\ Truthy(stored_embedding),
                           extracted |-> provided # Raised]
            /\ UNCHANGED <<decided, compareVars, storeVars, scanVars, locateVars, raceVars>>

IdentifyFace ==
    \E image \in Images :
      \E provided \in IF image = "ok" THEN {List(<<-1000>>), List(<<0>>), Raised}
                       ELSE {Raised} :
        \E table \in IF provided = Raised THEN {DbError} ELSE Tables \cup {DbError} :
          \E r \in {identify_face(temp_ic_embedding, image, provided, table)} :
            /\ temp_ic_embedding' = r.temp
            /\ response' = r.response
            /\ handler' = "identify_face"
            /\ request' = [image |-> image, reached |-> image = "ok",
                           extracted |-> provided # Raised]
            /\ UNCHANGED <<decided, compareVars, storeVars, scanVars, locateVars, raceVars>>

NextFlow == UploadIc \/ ProcessFrame \/ VerifyLogin \/ IdentifyFace

SpecFlow == InitFlow /\ [][NextFlow]_vars

\* ---------------------------------------------------------- face location
Max(a, b) == IF a >= b THEN a ELSE b
Min(a, b) == IF a <= b THEN a ELSE b

\* crop_face's default padding
padding == 50

\* config.MAX_IMAGE_SIZE and resize_image's default min_size
MAX_IMAGE_SIZE == 800
min_size == 320

\* the frames handed to process_frame_for_embedding: small ones, a large
\* one and a large elongated one. For these sizes the double products
\* width * scale and height * scale of resize_image are whole numbers, so
\* int() of them is the floor of the exact product computed here.
Frames ==
    {[width |-> 160, height |-> 160], [width |-> 100, height |-> 160],
     [width |-> 1600, height |-> 1200], [width |-> 2000, height |-> 400]}

\* resize_image: a frame larger than max_size is scaled by max_size / max_dim
\* and, if its shorter side then falls under min_size, by min_size / min_dim
\* instead
resize_image(f) ==
    LET max_dim == Max(f.height, f.width)
        min_dim == Min(f.height, f.width)
        new_width == (f.width * MAX_IMAGE_SIZE) \div max_dim
        new_height == (f.height * MAX_IMAGE_SIZE) \div max_dim
    IN  IF max_dim > MAX_IMAGE_SIZE
        THEN IF Min(new_width, new_height) < min_size
             THEN [width |-> (f.width * min_size) \div min_dim,
                   height |-> (f.height * min_size) \div min_dim]
             ELSE [width |-> new_width, height |-> new_height]
        ELSE f

\* the boxes detectMultiScale may return in a frame: x, y, w, h with the box
\* inside the frame
Box(x, y, w, h) == [x |-> x, y |-> y, w |-> w, h |-> h]
BoxesIn(f) ==
    {b \in {Box(x, y, w, h) : x \in {0, 30, 90}, y \in {0, 90},
                              w \in {40, 70}, h \in {40, 70}} :
        b.x + b.w <= f.width /\ b.y + b.h <= f.height}
Detections(f) == SeqsUpTo(BoxesIn(f), MaxFaces)
\* what the second call would return where the first found faces (the call
\* is then not made): nothing, or one face
LenientDetections(f) == {<< >>, <<Box(30, 0, 70, 70)>>}

\* variant: the second attempt's faces are taken whenever it finds any
detect_face_tier2(f, cascade_loaded, attempt1, attempt2) ==
    IF ~cascade_loaded THEN << >>
    ELSE IF Len(attempt2) = 0 THEN attempt1
    ELSE attempt2

\* the detectMultiScale calls detect_face makes: none without a cascade,
\* the second only when the first returned no face
detect_attempts(cascade_loaded, attempt1) ==
    IF ~cascade_loaded THEN {}
    ELSE IF Len(attempt1) = 0 THEN {1, 2}
    ELSE {1}

\* the minSize and minNeighbors detect_face hands to detectMultiScale at the
\* first and at the second attempt
min_face_size(f, attempt) ==
    IF attempt = 1 THEN Max(15, Min(f.width, f.height) \div 20)
    ELSE Max(10, Min(f.width, f.height) \div 30)
minNeighbors(attempt) == IF attempt = 1 THEN 1 ELSE 1
detect_params(f, attempt) ==
    [minSize |-> min_face_size(f, attempt),
     minNeighbors |-> minNeighbors(attempt)]

\* detect_face: no faces without a cascade; the first attempt's faces, or
\* the second attempt's when the first found none
detect_face(f, cascade_loaded, attempt1, attempt2) ==
    IF ~cascade_loaded THEN << >>
    ELSE IF Len(attempt1) = 0 THEN attempt2
    ELSE attempt1

Region(kind, x, y, w, h) == [kind |-> kind, x |-> x, y |-> y, w |-> w, h |-> h]

\* variant: the padded width and height are not clipped to the frame
crop_face_noclip(f, face_coords) ==
    LET x == Max(0, face_coords.x - padding)
        y == Max(0, face_coords.y - padding)
        w == face_coords.w + padding * 2
        h == face_coords.h + padding * 2
    IN  IF x < 0 \/ y < 0 \/ x + w > f.width \/ y + h > f.height
        THEN Region("ValueError", x, y, w, h)
        ELSE IF w <= 0 \/ h <= 0
        THEN Region("cv2.error", x, y, w, h)
        ELSE Region("crop", x, y, w, h)

\* variant: the padded origin is not kept inside the frame
crop_face_noclamp(f, face_coords) ==
    LET x == face_coords.x - padding
        y == face_coords.y - padding
        w == Min(f.width - x, face_coords.w + padding * 2)
        h == Min(f.height - y, face_coords.h + padding * 2)
    IN  IF x < 0 \/ y < 0 \/ x + w > f.width \/ y + h > f.height
        THEN Region("ValueError", x, y, w, h)
        ELSE IF w <= 0 \/ h <= 0
        THEN Region("cv2.error", x, y, w, h)
        ELSE Region("crop", x, y, w, h)

\* crop_face: the padded region, ValueError when the validation fails,
\* cv2.error when imwrite is handed an empty crop
crop_face(f, face_coords) ==
    LET x == Max(0, face_coords.x - padding)
        y == Max(0, face_coords.y - padding)
        w == Min(f.width - x, face_coords.w + padding * 2)
        h == Min(f.height - y, face_coords.h + padding * 2)
    IN  IF x < 0 \/ y < 0 \/ x + w > f.width \/ y + h > f.height
        THEN Region("ValueError", x, y, w, h)
        ELSE IF w <= 0 \/ h <= 0
        THEN Region("cv2.error", x, y, w, h)
        ELSE Region("crop", x, y, w, h)

\* variant: the first face returned, whatever its area
largest_face_first(fs) == fs[1]

\* max(faces, key=lambda f: f[2] * f[3]): the first face of largest area
largest_face(fs) ==
    fs[CHOOSE i \in 1..Len(fs) :
          /\ \A j \in 1..Len(fs) : fs[j].w * fs[j].h <= fs[i].w * fs[i].h
          /\ \A j \in 1..(i - 1) : fs[j].w * fs[j].h < fs[i].w * fs[i].h]

\* the temporary files: face_crop_<second>.jpg and temp_embed_<second>.jpg
crop_path == "face_crop"
temp_path == "temp_embed"

\* cv2.imwrite(path, img): the file is there afterwards when it was written
imwrite(fs, path, written) == IF written THEN fs \cup {path} ELSE fs

\* if os.path.exists(path): os.remove(path)
remove_if_exists(fs, path) == fs \ {path}

\* the file DeepFace.represent works on: the temp_embed file for the whole
\* frame, the face crop file for a crop
input_path(region) == IF region.kind = "whole" THEN temp_path ELSE crop_path

\* variant: the temp_embed file is removed only after a successful call
generate_embedding_cleanup_ok(fs, region, ok) ==
    IF region.kind = "whole" /\ ok THEN remove_if_exists(fs, temp_path) ELSE fs

\* generate_embedding: a temp_path that was set is removed after the
\* provider's call, in the try block and in the except block alike
generate_embedding_cleanup(fs, region, ok) ==
    IF region.kind = "whole" THEN remove_if_exists(fs, temp_path) ELSE fs

\* process_frame_for_embedding up to the call of generate_embedding: the
\* whole frame when no face was detected, else the crop of the largest face
locate(f, fs) ==
    IF Len(fs) = 0 THEN Region("whole", 0, 0, f.width, f.height)
    ELSE crop_face(f, largest_face(fs))

InitLocate ==
    /\ frame \in Frames
    /\ original = frame
    /\ loaded \in BOOLEAN
    /\ detections = << >>
    /\ attempts = {}
    /\ params = << >>
    /\ faces = << >>
    /\ located = NoRegion
    /\ locate_pc = "resize"
    /\ files = {}
    /\ created = {}
    /\ finished = "none"
    /\ temp_ic_embedding = None
    /\ IdleCompare
    /\ IdleStore
    /\ IdleFlow
    /\ IdleScan
    /\ IdleRace

\* process_frame_for_embedding, lines 251-253: resize if needed
ResizeFrame ==
    /\ locate_pc = "resize"
    /\ frame' = IF Max(frame.height, frame.width) > MAX_IMAGE_SIZE
                THEN resize_image(frame)
                ELSE frame
    /\ locate_pc' = "detect"
    /\ UNCHANGED <<original, loaded, detections, attempts, params, faces,
                   located, files, created, finished, temp_ic_embedding,
                   compareVars, storeVars, flowVars, scanVars, raceVars>>

DetectFace ==
    /\ locate_pc = "detect"
    /\ \E attempt1 \in Detections(frame) :
         \E attempt2 \in IF Len(attempt1) = 0 THEN Detections(frame)
                          ELSE LenientDetections(frame) :
            /\ faces' = detect_face(frame, loaded, attempt1, attempt2)
            /\ detections' = <<attempt1, attempt2>>
            /\ attempts' = detect_attempts(loaded, attempt1)
            /\ params' = [t \in detect_attempts(loaded, attempt1)
                            |-> detect_params(frame, t)]
    /\ locate_pc' = "locate"
    /\ UNCHANGED <<frame, original, loaded, located, files, created, finished,
                   temp_ic_embedding,
                   compareVars, storeVars, flowVars, scanVars, raceVars>>

\* the whole frame, or crop_face: the crop is written to the face crop file
\* (imwrite may write nothing)
LocateFace ==
    /\ locate_pc = "locate"
    /\ located' = locate(frame, faces)
    /\ \E written \in IF Len(faces) = 0 THEN {FALSE} ELSE BOOLEAN :
          /\ files' = imwrite(files, crop_path, written)
          /\ created' = imwrite(created, crop_path, written)
    /\ locate_pc' = "done"
    /\ UNCHANGED <<frame, original, loaded, detections, attempts, params,
                   faces, finished, temp_ic_embedding,
                   compareVars, storeVars, flowVars, scanVars, raceVars>>

\* generate_embedding up to the provider's call: the whole frame is written
\* to the temp_embed file, the crop is read back from its file
WriteInput ==
    /\ locate_pc = "done"
    /\ \E written \in IF located.kind = "whole" THEN BOOLEAN ELSE {FALSE} :
          /\ files' = imwrite(files, temp_path, written)
          /\ created' = imwrite(created, temp_path, written)
    /\ locate_pc' = "represent"
    /\ UNCHANGED <<frame, original, loaded, detections, attempts, params,
                   faces, located, finished, temp_ic_embedding,
                   compareVars, storeVars, flowVars, scanVars, raceVars>>

\* generate_embedding from the provider's call on: DeepFace.represent
\* returns an embedding or raises (it raises when the file it is to read
\* was not written), and the temp_embed file is removed either way
Represent ==
    /\ locate_pc = "represent"
    /\ \E ok \in IF input_path(located) \in files THEN BOOLEAN ELSE {FALSE} :
          /\ finished' = IF ok THEN "embedding" ELSE "raise"
          /\ files' = generate_embedding_cleanup(files, located, ok)
    /\ locate_pc' = "finally"
    /\ UNCHANGED <<frame, original, loaded, detections, attempts, params,
                   faces, located, created, temp_ic_embedding,
                   compareVars, storeVars, flowVars, scanVars, raceVars>>

\* process_frame_for_embedding's finally block on the crop path, and the
\* return or raise
Finally ==
    /\ locate_pc = "finally"
    /\ files' = IF located.kind = "whole" THEN files
                ELSE remove_if_exists(files, crop_path)
    /\ locate_pc' = "returned"
    /\ UNCHANGED <<frame, original, loaded, detections, attempts, params,
                   faces, located, created, finished, temp_ic_embedding,
                   compareVars, storeVars, flowVars, scanVars, raceVars>>

NextLocate ==
    ResizeFrame \/ DetectFace \/ LocateFace \/ WriteInput \/ Represent
        \/ Finally

SpecLocate == InitLocate /\ [][NextLocate]_vars

\* ------------------------------------------------------ overlapping flows
\* Two callers each run upload_ic and then process_frame.  The requests are
\* taken statement by statement, as they run when the server handles
\* requests concurrently: saving the upload, extracting its embedding and
\* storing it are steps of upload_ic; extracting the camera embedding and
\* deciding are steps of process_frame.
Persons == {1, 2}

\* what the embedding provider yields for the IC image of a person and for
\* a camera frame of that person
IcEmbedding(person) == IF person = 1 THEN List(<<0>>) ELSE List(<<3000>>)
FrameEmbedding(person) == IF person = 1 THEN List(<<-1000>>) ELSE List(<<4000>>)

InitRace ==
    /\ ic_person \in [Flows -> Persons]
    /\ camera_person \in [Flows -> Persons]
    /\ flow_pc = [f \in Flows |-> "start"]
    /\ user_ic_file = NoFile
    /\ flow_embedding = [f \in Flows |-> None]
    /\ flow_enrolled = [f \in Flows |-> None]
    /\ flow_response = [f \in Flows |-> NoResponse]
    /\ last_enroll = NoFlow
    /\ flow_against = [f \in Flows |-> NoFlow]
    /\ temp_ic_embedding = None
    /\ IdleCompare
    /\ IdleStore
    /\ IdleFlow
    /\ IdleScan
    /\ IdleLocate

\* upload_ic: file.save(filepath), filepath being uploads/user_ic.jpg
SaveUpload(f) ==
    /\ flow_pc[f] = "start"
    /\ user_ic_file' = ic_person[f]
    /\ flow_pc' = [flow_pc EXCEPT ![f] = "saved"]
    /\ UNCHANGED <<ic_person, camera_person, flow_embedding, flow_enrolled,
                   flow_response, last_enroll, flow_against, temp_ic_embedding,
                   compareVars, storeVars, flowVars, scanVars, locateVars>>

\* upload_ic: generate_embedding(filepath) reads the file as it is now
ExtractUpload(f) ==
    /\ flow_pc[f] = "saved"
    /\ flow_embedding' = [flow_embedding EXCEPT ![f] = IcEmbedding(user_ic_file)]
    /\ flow_pc' = [flow_pc EXCEPT ![f] = "extracted"]
    /\ UNCHANGED <<ic_person, camera_person, user_ic_file, flow_enrolled,
                   flow_response, last_enroll, flow_against, temp_ic_embedding,
                   compareVars, storeVars, flowVars, scanVars, locateVars>>

\* upload_ic: store_temp_embedding(embedding) and the response
StoreUpload(f) ==
    /\ flow_pc[f] = "extracted"
    /\ \E r \in {upload_ic(temp_ic_embedding, "ok", TRUE, flow_embedding[f])} :
        /\ temp_ic_embedding' = r.temp
        /\ flow_response' = [flow_response EXCEPT ![f] = r.response]
    /\ flow_enrolled' = [flow_enrolled EXCEPT ![f] = flow_embedding[f]]
    /\ last_enroll' = f
    /\ flow_pc' = [flow_pc EXCEPT ![f] = "enrolled"]
    /\ UNCHANGED <<ic_person, camera_person, user_ic_file, flow_embedding,
                   flow_against, compareVars, storeVars, flowVars, scanVars,
                   locateVars>>

\* process_frame: process_frame_for_embedding(frame)
ExtractFrame(f) ==
    /\ flow_pc[f] = "enrolled"
    /\ flow_embedding' = [flow_embedding EXCEPT ![f] = FrameEmbedding(camera_person[f])]
    /\ flow_pc' = [flow_pc EXCEPT ![f] = "framed"]
    /\ UNCHANGED <<ic_person, camera_person, user_ic_file, flow_enrolled,
                   flow_response, last_enroll, flow_against, temp_ic_embedding,
                   compareVars, storeVars, flowVars, scanVars, locateVars>>

\* process_frame: get_temp_embedding(), the comparison and the response
DecideFrame(f) ==
    /\ flow_pc[f] = "framed"
    /\ \E r \in {process_frame(temp_ic_embedding, "ok", flow_embedding[f])} :
        /\ temp_ic_embedding' = r.temp
        /\ flow_response' = [flow_response EXCEPT ![f] = r.response]
    /\ flow_against' = [flow_against EXCEPT ![f] = last_enroll]
    /\ flow_pc' = [flow_pc EXCEPT ![f] = "verified"]
    /\ UNCHANGED <<ic_person, camera_person, user_ic_file, flow_embedding,
                   flow_enrolled, last_enroll, compareVars, storeVars, flowVars,
                   scanVars, locateVars>>

NextRace ==
    \E f \in Flows :
        \/ SaveUpload(f)
        \/ ExtractUpload(f)
        \/ StoreUpload(f)
        \/ ExtractFrame(f)
        \/ DecideFrame(f)

SpecRace == InitRace /\ [][NextRace]_vars

\* ------------------------------------------------ claims on the comparison
Returned == pc = "done" /\ result.outcome = "return"
FiniteResult == Returned /\ result.distance.k = "fin"

\* C1: comparing a valid native embedding with itself returns distance 0,
\* score 100 and is_match true.
C1_SelfCompare ==
    (pc = "done" /\ embedding1.t = "list" /\ embedding2 = embedding1)
        => result = Return(TRUE, 100, Fin(0))

C1_Witness ==
    /\ pc = "done"
    /\ embedding1.t = "list"
    /\ Len(embedding1.nums) = MaxLen
    /\ embedding2 = embedding1
    /\ result.outcome = "return"

\* C2: the score is round(clamp(((40 - d) / 40) * 100, 0, 100)): it lies
\* within one half of the clamped raw score, and distance 0 gives 100,
\* 10 gives 75, 20 gives 50, 22 gives 45, 30 gives 25, 40 and more give 0.
C2_ScoreFormula ==
    FiniteResult =>
        LET sq == result.distance.sq
            sc == result.score
        IN  /\ sc \in 0..100
            /\ sq >= 4000 * 4000 => sc = 0
            /\ sq < 4000 * 4000 =>
                  /\ sq <= (4020 - 40 * sc) * (4020 - 40 * sc)
                  /\ 3980 - 40 * sc > 0 => sq >= (3980 - 40 * sc) * (3980 - 40 * sc)
            /\ sq = 0 => sc = 100
            /\ sq = 1000 * 1000 => sc = 75
            /\ sq = 2000 * 2000 => sc = 50
            /\ sq = 2200 * 2200 => sc = 45
            /\ sq = 3000 * 3000 => sc = 25

C2_Witness ==
    FiniteResult /\ result.distance.sq = 2200 * 2200 /\ result.score = 45

\* C3: every returned result has an integer score in 0..100 and is_match
\* is true exactly when the score is at least 45.
C3_ScoreRange ==
    Returned =>
        /\ result.score \in 0..100
        /\ result.is_match <=> result.score >= 45

C3_Witness ==
    /\ Returned
    /\ embedding1.t = "str"
    /\ result.is_match
    /\ result.score < 50

\* what compare_embeddings returns at distance |v - p|, for every stored
\* component v and every probe component p
RefResults ==
    {LET distance == Fin((v - p) * (v - p))
         score == score_of(PASSING_THRESHOLD_DISTANCE, distance)
     IN  Return(is_match_of(score, distance), score, distance) :
        v \in StoredVals, p \in ProbeVals}

MonotoneWith(r1, r2) ==
    FloatLeq(r1.distance, r2.distance) =>
        /\ r1.score >= r2.score
        /\ r2.is_match => r1.is_match

\* C4: the score does not increase with the distance: of two comparisons,
\* the one with the smaller distance has the score at least as high, and
\* it matches whenever the other one matches.
C4_Monotone ==
    Returned => \A r \in RefResults : MonotoneWith(result, r) /\ MonotoneWith(r, result)

C4_Witness ==
    /\ FiniteResult
    /\ Len(embedding1.nums) = MaxLen
    /\ \E r \in RefResults :
          FloatLess(result.distance, r.distance) /\ result.score > r.score /\ r.score > 0

\* C5 as stated: a comparison is accepted exactly when its distance is at
\* most 22.0.
C5_AcceptUpTo22 ==
    FiniteResult => (result.is_match <=> result.distance.sq <= 2200 * 2200)

\* C5 amended: a comparison is accepted exactly when its distance is below
\* 22.2, the distances whose raw score rounds to 45 or more; 22 and 22.01
\* are accepted.
C5_AcceptBelow22_2 ==
    FiniteResult => (result.is_match <=> result.distance.sq < 2220 * 2220)

C5_Witness ==
    FiniteResult /\ result.distance.sq = 2201 * 2201 /\ result.is_match

\* an argument that is absent or does not decode to a numeric sequence
Unusable(e) ==
    \/ e.t = "None"
    \/ e.t = "str" /\ (~json_loads(e.chars).ok \/ json_loads(e.chars).t # "list")

\* C6: when either argument is absent or unparseable the call returns
\* distance +infinity, score 0, is_match false and raises nothing.
C6_SoftDegrade ==
    (pc = "done" /\ (Unusable(embedding1) \/ Unusable(embedding2)))
        => result = Return(FALSE, 0, inf)

\* the numeric sequence an argument stands for
VecOf(e) == IF e.t = "str" THEN json_loads(e.chars).nums ELSE e.nums

\* C7: two parseable embeddings of different lengths make the call fail;
\* it never returns a result.
C7_LengthMismatchRaises ==
    (/\ pc = "done"
     /\ ~Unusable(embedding1)
     /\ ~Unusable(embedding2)
     /\ Len(VecOf(embedding1)) # Len(VecOf(embedding2)))
        => result.outcome = "raise"

\* C8: a native embedding and the JSON text of the same values give the
\* same result, in either argument position.
C8_JsonRoundTrip ==
    pc = "done" =>
        /\ embedding1.t = "list" =>
              result = compare_embeddings(Str(json_dumps(embedding1.nums)), embedding2)
        /\ embedding2.t = "list" =>
              result = compare_embeddings(embedding1, Str(json_dumps(embedding2.nums)))

C8_Witness ==
    /\ FiniteResult
    /\ embedding1.t = "list"
    /\ embedding2.t = "str"
    /\ Len(embedding1.nums) = MaxLen
    /\ \E i \in 1..MaxLen : embedding1.nums[i] < 0
    /\ \E i \in 1..MaxLen : embedding1.nums[i] % 100 # 0
    /\ result.distance.sq > 0

\* ---------------------------------------------- claims on the enrollment
\* C9: get_temp_embedding returns empty before any store and after a clear,
\* and otherwise exactly the argument of the most recent store.
C9_GetReturnsLastStore == last_op = "get" => got = last_store

C9_Witness ==
    /\ last_op = "get"
    /\ got # None
    /\ got = last_store
    /\ Len(got.nums) = MaxLen

\* C10: once an enrollment is stored, no request handler empties the slot,
\* and every verify request, Verified or Rejected, leaves the stored
\* embedding as it was.
C10_VerifyKeepsEnrollment ==
    [][temp_ic_embedding # None =>
          /\ temp_ic_embedding' # None
          /\ handler' = "process_frame" => temp_ic_embedding' = temp_ic_embedding]_vars

C10_Witness ==
    /\ handler = "process_frame"
    /\ response.status = "fail"
    /\ temp_ic_embedding # None
    /\ decided = MaxVerify

\* ------------------------------------------------- claims on the requests
EnrollFirst == Response(400, "error", "No IC record found. Please upload IC first.", 0)

ScanDone == scan_pc = "done"
Rows1 == 1..Len(users)
\* the rows the loop compares: those with a non-empty face_embedding
ComparedRows == {k \in Rows1 : Truthy(users[k].face_embedding)}
\* what compare_embeddings gives for each row
Comparisons ==
    [k \in Rows1 |-> compare_embeddings(users[k].face_embedding, camera_embedding)]
\* every row holds an embedding of the probe's length, native or as JSON
\* text, or no embedding at all
ValidRows ==
    \A k \in ComparedRows :
        /\ ~Unusable(users[k].face_embedding)
        /\ Len(VecOf(users[k].face_embedding)) = Len(VecOf(camera_embedding))
\* in the comparisons c, row k is the compared row of least distance, the
\* first of them in scan order
IsNearest(c, k) ==
    /\ k \in ComparedRows
    /\ \A j \in ComparedRows :
          /\ FloatLeq(c[k].distance, c[j].distance)
          /\ j < k => FloatLess(c[k].distance, c[j].distance)
Nearest(c) == CHOOSE k \in Rows1 : IsNearest(c, k)
NotIdentified(resp) ==
    /\ resp.code = 200
    /\ resp.status = "false"
    /\ resp.user = NoUser

\* C12: a scan over no rows, or over rows that all have an empty
\* embedding, ends as not identified with best score 0.
C12_EmptyScan ==
    (ScanDone /\ ComparedRows = {})
        => /\ NotIdentified(response)
           /\ response.score = 0
           /\ scan.best_score = 0

C12_Witness ==
    /\ ScanDone
    /\ Len(users) >= 2
    /\ ComparedRows = {}
    /\ \E j, k \in Rows1 : users[j].face_embedding # users[k].face_embedding
    /\ NotIdentified(response)

BestIsNearest(c, n) ==
    /\ scan.best_distance = c[n].distance
    /\ scan.best_score = c[n].score
    /\ response.score = c[n].score
    /\ scan.best_match # NoUser => scan.best_match = users[n].user_id

\* C13: over rows holding embeddings the scan ends with best_distance the
\* least distance of all compared rows and best_score the score of the
\* first row at that distance, identified or not, and the row selected is
\* that first row.
C13_BestIsNearest ==
    (ScanDone /\ ValidRows /\ ComparedRows # {})
        => \E c \in {Comparisons} : \E n \in {Nearest(c)} : BestIsNearest(c, n)

C13_Witness ==
    /\ ScanDone
    /\ ValidRows
    /\ \E c \in {Comparisons} :
          /\ \E j, k \in ComparedRows :
                /\ j < k
                /\ c[j].distance = c[k].distance
                /\ c[j].distance = scan.best_distance
                /\ scan.best_match = users[j].user_id
          /\ \E k \in ComparedRows : FloatLess(scan.best_distance, c[k].distance)

IdentifiedIffNearestPasses(c) ==
    /\ response.code = 200
    /\ response.status = "true"
         <=> /\ ComparedRows # {}
             /\ c[Nearest(c)].score >= PASSING_THRESHOLD_PERCENTAGE
    /\ response.status = "true" => response.user = users[Nearest(c)].user_id
    /\ response.status # "true" => NotIdentified(response)

\* C14: over rows holding embeddings the response reports a user exactly
\* when the score of the nearest row is at least the percentage threshold,
\* and the user reported is that nearest row.
C14_IdentifiedIffNearestPasses ==
    (ScanDone /\ ValidRows)
        => \E c \in {Comparisons} : IdentifiedIffNearestPasses(c)

C14_Witness ==
    /\ ScanDone
    /\ ValidRows
    /\ response.status = "true"
    /\ \E c \in {Comparisons} :
          /\ response.user = users[Nearest(c)].user_id
          /\ \E j \in ComparedRows : j < Nearest(c) /\ c[j].is_match
          /\ \E k \in ComparedRows : ~c[k].is_match

\* a row whose stored embedding is a text that is not the JSON of a
\* numeric sequence
Unparseable(e) == Truthy(e) /\ Unusable(e)
Parseable(u) == ~Unparseable(u.face_embedding)

\* C15: a row whose stored embedding cannot be parsed compares as distance
\* +infinity, score 0, no match, and the response is the one the scan gives
\* for the same rows without the unparseable ones.
C15_UnparseableRowsIgnored ==
    ScanDone
        => /\ \A k \in Rows1 :
                Unparseable(users[k].face_embedding)
                    => Comparisons[k] = Return(FALSE, 0, inf)
           /\ response = identify_response(
                 scan_users(ScanStart, SelectSeq(users, Parseable), camera_embedding))

\* in the comparisons c, the scan's best_distance and best_score are those
\* of the row best_match, a row the loop has been through
BestMatchIsBest(c) ==
    /\ scan.best_match \in ComparedRows
    /\ scan.best_match <= scanned
    /\ c[scan.best_match].outcome = "return"
    /\ c[scan.best_match].is_match
    /\ c[scan.best_match].distance = scan.best_distance
    /\ c[scan.best_match].score = scan.best_score

\* C28: at every step of the scan, and after it, a best_match that is set
\* is the row whose distance is best_distance and whose score is
\* best_score: no earlier match stays best_match once a closer row has
\* replaced best_distance and best_score.
C28_BestMatchIsBest ==
    (scan_pc \in {"scan", "done"} /\ scan.best_match # NoUser)
        => \E c \in {Comparisons} : BestMatchIsBest(c)

C28_Witness ==
    /\ scan_pc = "scan"
    /\ scanned = 2
    /\ scan.best_match = 2
    /\ Comparisons[1].is_match
    /\ FloatLess(Comparisons[2].distance, Comparisons[1].distance)
    /\ scan.best_score > Comparisons[1].score

\* ------------------------------------------ claims on the command-line tool
\* C27: for the same two embeddings, the score the command-line tool prints
\* and the match decision it takes equal the score and is_match that
\* compare_embeddings returns.
C27_ToolAgreesWithCompare ==
    (tool.ran /\ pc = "done")
        => /\ Returned
           /\ tool.score = result.score
           /\ tool.is_match = result.is_match

\* ------------------------------------------------ claims on face location
\* region r lies in the frame, is not empty and holds the box b
PaddedClipped(r, b) ==
    /\ 0 <= r.x /\ r.x <= b.x /\ b.x + b.w <= r.x + r.w /\ r.x + r.w <= frame.width
    /\ 0 <= r.y /\ r.y <= b.y /\ b.y + b.h <= r.y + r.h /\ r.y + r.h <= frame.height
    /\ r.w > 0 /\ r.h > 0

\* C16: for every frame and all detector outputs inside it, also none and
\* an unloadable cascade, face location raises nothing: it yields the whole
\* frame when no face was detected and else a region inside the frame that
\* holds a detected face; crop_face's ValueError is never raised.
C16_LocateNeverRaises ==
    locate_pc = "done"
        => /\ located.kind \in {"crop", "whole"}
           /\ located.kind = "whole"
                <=> (~loaded \/ (detections[1] = << >> /\ detections[2] = << >>))
           /\ located.kind = "whole"
                => located = Region("whole", 0, 0, frame.width, frame.height)
           /\ located.kind = "crop"
                => \E i \in 1..Len(faces) : PaddedClipped(located, faces[i])

C16_Witness ==
    /\ locate_pc = "done"
    /\ located.kind = "crop"
    /\ Len(faces) = 2
    /\ detections[1] = << >>
    /\ located.x > 0
    /\ located.x + located.w = frame.width
    /\ located.y = 0
    /\ located.y + located.h < frame.height

\* C21: detection is an ordered fallback: the second attempt is made only
\* after a first attempt that found no face, the faces of a first attempt
\* that found any are the ones returned, whatever the second would have
\* found, and the whole frame is used only when no attempt made found a face.
C21_OrderedFallback ==
    locate_pc \in {"locate", "done"}
        => /\ 2 \in attempts => (1 \in attempts /\ detections[1] = << >>)
           /\ (1 \in attempts /\ detections[1] # << >>)
                => (attempts = {1} /\ faces = detections[1])
           /\ (2 \in attempts) => faces = detections[2]
           /\ loaded <=> 1 \in attempts
           /\ locate_pc = "done"
                => (located.kind = "whole"
                        <=> \A t \in attempts : detections[t] = << >>)

C21_Witness ==
    /\ locate_pc = "done"
    /\ attempts = {1}
    /\ detections[2] # << >>
    /\ detections[2] # detections[1]
    /\ located.kind = "crop"

\* C22: whenever detect_face makes its second attempt, that attempt's
\* minSize is smaller than the first attempt's and its minNeighbors is
\* smaller than the first attempt's.
C22_SecondAttemptMoreLenient ==
    2 \in attempts
        => /\ params[2].minSize < params[1].minSize
           /\ params[2].minNeighbors < params[1].minNeighbors

Area(b) == b.w * b.h

\* C23: when detect_face returned more than one face, the region cropped is
\* the crop of a face whose area w * h no returned face exceeds.
C23_LargestFaceCropped ==
    (locate_pc = "done" /\ Len(faces) > 1)
        => \E i \in 1..Len(faces) :
              /\ \A j \in 1..Len(faces) : Area(faces[j]) <= Area(faces[i])
              /\ located = crop_face(frame, faces[i])

C23_Witness ==
    /\ locate_pc = "done"
    /\ Len(faces) = 2
    /\ Area(faces[1]) < Area(faces[2])
    /\ located = crop_face(frame, faces[2])
    /\ located # crop_face(frame, faces[1])

\* the box b expanded by the padding on all four sides and then cut to the
\* frame: [max(0, x-50), min(W, x+w+50)) x [max(0, y-50), min(H, y+h+50))
ExpandedAndCut(r, b) ==
    /\ r.x = Max(0, b.x - padding)
    /\ r.x + r.w = Min(frame.width, b.x + b.w + padding)
    /\ r.y = Max(0, b.y - padding)
    /\ r.y + r.h = Min(frame.height, b.y + b.h + padding)

\* C24: the region crop_face crops is the detected box expanded by the
\* padding on all four sides and then intersected with the frame, also for
\* boxes closer than the padding to the left or the top edge.
C24_CropIsExpandedBoxCut ==
    (locate_pc = "done" /\ located.kind = "crop")
        => ExpandedAndCut(located, largest_face(faces))

\* C25: the x, y, w, h crop_face computes for the selected box are not
\* negative, x + w and y + h do not exceed the frame's width and height,
\* and the region holds the box.
C25_CropInsideFrameHoldsBox ==
    (locate_pc = "done" /\ Len(faces) > 0)
        => \E b \in {largest_face(faces)} :
              /\ located.x >= 0 /\ located.y >= 0
              /\ located.w >= 0 /\ located.h >= 0
              /\ located.x + located.w <= frame.width
              /\ located.y + located.h <= frame.height
              /\ located.x <= b.x /\ b.x + b.w <= located.x + located.w
              /\ located.y <= b.y /\ b.y + b.h <= located.y + located.h

C25_Witness ==
    /\ locate_pc = "done"
    /\ located.kind = "crop"
    /\ largest_face(faces).x < padding
    /\ largest_face(faces).y > padding
    /\ located.x = 0
    /\ located.y = largest_face(faces).y - padding
    /\ located.x + located.w < frame.width
    /\ located.y + located.h = frame.height

\* C26: once process_frame_for_embedding has been through its resize step,
\* the frame's larger dimension is at most MAX_IMAGE_SIZE, and a frame whose
\* larger dimension was at most MAX_IMAGE_SIZE has its original size.
C26_ResizedWithinMax ==
    locate_pc \in {"detect", "locate", "done"}
        => /\ Max(frame.width, frame.height) <= MAX_IMAGE_SIZE
           /\ Max(original.width, original.height) <= MAX_IMAGE_SIZE
                => frame = original

ExtractionFailed ==
    /\ handler \in {"upload_ic", "process_frame", "verify_login", "identify_face"}
    /\ request.reached
    /\ ~request.extracted

\* C17: on upload_ic, process_frame, verify_login and identify_face a
\* failure of the embedding extraction ends the request with a server
\* error (500), never with a client error or an outcome.
C17_ExtractionFailureIs500 == ExtractionFailed => response.code = 500

\* C29: an upload_ic request in which OCR or the embedding extraction raises
\* leaves the enrollment slot as it was, empty or not, and a verify request
\* that follows it is decided against the embedding the slot held before.
C29_FailedUploadKeepsSlot ==
    [][/\ (handler' = "upload_ic" /\ response'.code = 500)
            => temp_ic_embedding' = temp_ic_embedding
       /\ (/\ handler = "upload_ic" /\ response.code = 500
           /\ handler' = "process_frame" /\ Decided(response'))
            => /\ temp_ic_embedding # None
               /\ \E provided \in FlowEmbeddings :
                     response' = verify_outcome(temp_ic_embedding,
                                     compare_embeddings(temp_ic_embedding,
                                                        provided)).response]_vars

C29_Witness ==
    /\ handler = "upload_ic"
    /\ response.code = 500
    /\ request.reached
    /\ ~request.extracted
    /\ temp_ic_embedding # None

\* C20: verify_login and identify_face requests leave the enrollment slot
\* as it was, whatever it holds and whatever they answer.
C20_LoginAndIdentifyKeepSlot ==
    [][handler' \in {"verify_login", "identify_face"}
        => temp_ic_embedding' = temp_ic_embedding]_vars

C20_Witness ==
    /\ handler = "verify_login"
    /\ temp_ic_embedding # None
    /\ response.code = 200
    /\ response.status = "success"

\* ------------------------------------------- claims on overlapping flows
\* what process_frame answers when the frame embedding camera is decided
\* against the stored embedding ic
DecisionOn(ic, camera) == verify_outcome(ic, compare_embeddings(ic, camera)).response

\* C18: in every interleaving of two enroll-then-verify flows a verify is
\* decided against the embedding stored by the most recent upload_ic,
\* whichever flow made it.
C18_LastEnrollDecides ==
    \A f \in Flows :
        flow_pc[f] = "verified"
            => /\ flow_against[f] \in Flows
               /\ flow_response[f] =
                    DecisionOn(flow_enrolled[flow_against[f]], flow_embedding[f])

C18_Witness ==
    /\ flow_pc[1] = "verified"
    /\ ic_person[1] = 1
    /\ camera_person[1] = 1
    /\ flow_against[1] = 2
    /\ flow_enrolled[1] = IcEmbedding(1)
    /\ flow_enrolled[2] = IcEmbedding(2)
    /\ flow_response[1].status = "fail"

\* C19: requests that overlap do not influence each other through the
\* files under the upload folder: the embedding an upload_ic request
\* extracts, stores and returns is the one of the image it uploaded.
C19_UploadUsesOwnFile ==
    \A f \in Flows :
        flow_pc[f] \in {"enrolled", "framed", "verified"}
            => flow_enrolled[f] = IcEmbedding(ic_person[f])

====
